---------------------------- MODULE Spec2Model ----------------------------
(***************************************************************************)
(* Multi-repository log aggregation and pagination: GitLogCollector of     *)
(* crates/unified-knowledge/src/git/mod.rs, with the Page data model of    *)
(* crates/unified-knowledge/src/lib.rs.                                    *)
(*                                                                         *)
(* The repository backend (git2) is the environment: the state of every    *)
(* repository on disk is the variable repos, chosen in Init.  Time stamps  *)
(* are integers (seconds); the wall clock read by Utc::now() is an input   *)
(* of the call that reads it.                                              *)
(***************************************************************************)
EXTENDS Integers, Sequences, FiniteSets, TLC

\* ---------------------------------------------------------------- bounds
MaxCommits    == 2      \* commits reachable from HEAD, per repository
MaxTime       == 3      \* commit times are 1..MaxTime
MaxPageSize   == 2      \* page_size is 0..MaxPageSize
MaxClock      == 2      \* Utc::now() returns MaxTime+1 .. MaxTime+MaxClock
MaxTargetPages == 4     \* the quiz is asked for 0..MaxTargetPages pages

VARIABLES
    root,               \* environment: the root repository as discovery finds it
    repos,              \* environment: path -> state of the repository there
    submodules,         \* GitLogCollector.submodules
    timestamp_ordering, \* GitLogCollector.timestamp_ordering (BTreeMap)
    current_page,       \* GitLogCollector.current_page
    page_size,          \* GitLogCollector.page_size
    ragit_integration,  \* GitLogCollector.ragit_integration
    all_logs,           \* caller: the list logs it holds, from collect_all_submodule_logs
    pc,                 \* caller: "start", then "failed" or "new", then
                        \* "collected", then "ordered"
    call,               \* caller: the last pagination call and its argument
    page,               \* caller: the Page that call returned, if it did
    stats,              \* caller: what the last get_submodule_stats returned
    quiz_session        \* run_interactive_quiz: its loop variable current_page
                        \* and the counters of its InteractiveQuizSession

vars == <<root, repos, submodules, timestamp_ordering, current_page, page_size,
          ragit_integration, all_logs, pc, call, page, stats,
          quiz_session>>

\* ------------------------------------------------------------ data model
None    == << >>        \* Option::None
Some(x) == << x >>      \* Option::Some(x)
NoLogs  == [ok |-> FALSE, logs |-> <<>>]
NoCall  == [op |-> "none", arg |-> 0, panicked |-> FALSE]
NoQuiz  == [current_page |-> 0, pages_processed |-> 0, target_pages |-> 0,
            ended |-> "not started"]

Times      == 1 .. MaxTime
ClockTimes == (MaxTime + 1) .. (MaxTime + MaxClock)

EmptyDiffStats == [insertions |-> 0, deletions |-> 0, files_changed |-> 0]

\* One commit as the backend presents it: its commit time, whether the
\* tree diff against its first parent can be computed, and its author name
\* and message, which are Options (None when not valid UTF-8).  Here both
\* are readable.
Commit ==
    [time : Times, diff_ok : BOOLEAN,
     author : {Some("author")}, message : {Some("message")}]

\* Commits that can be diffed and whose author name or message may be
\* unreadable.
CommitAnyMetadata ==
    [time : Times, diff_ok : {TRUE},
     author : {None, Some("author")}, message : {None, Some("message")}]

\* Histories as revwalk with Sort::TIME yields them: newest first.
HistoriesOf(commits) ==
    { h \in UNION { [1 .. k -> commits] : k \in 0 .. MaxCommits } :
        \A i \in 1 .. Len(h) - 1 : h[i].time >= h[i + 1].time }

Histories == HistoriesOf(Commit)

\* A repository on disk: the path may be missing; Repository::open, revwalk
\* or push_head may fail (opens = FALSE); otherwise it has a history.
RepoStates ==
    { r \in [exists : BOOLEAN, opens : BOOLEAN, commits : Histories] :
        /\ (~r.exists => ~r.opens)
        /\ (~r.opens => r.commits = <<>>) }

\* The root repository declares one submodule, at path "sub1".
RootPath == "."
Declared == << "sub1" >>
Paths == { Declared[i] : i \in 1 .. Len(Declared) } \cup {RootPath}

\* ------------------------------------------------------------- discovery
\* .unwrap_or(default)
UnwrapOr(opt, default) == IF opt = None THEN default ELSE opt[1]

\* A submodule declared at path, as the backend presents it: name(), url()
\* and head_id() are Options.
SubmoduleAt(path) ==
    [name : {None, Some(path)}, path : {path},
     url : {None, Some("url")}, head_id : {None, Some("oid")}]

\* What .gitmodules can declare: the first k of these paths.
DeclaredPool == << "sub1", "sub2" >>
DeclaredLists ==
    UNION { { d \in [1 .. k -> UNION { SubmoduleAt(DeclaredPool[i]) :
                                          i \in 1 .. Len(DeclaredPool) }] :
                \A i \in 1 .. k : d[i].path = DeclaredPool[i] } :
            k \in 0 .. Len(DeclaredPool) }

\* The root path at construction: Repository::open may fail (opens =
\* FALSE), repo.submodules() may fail (enumerates = FALSE), and
\* .gitmodules declares the submodules declared.
RootStates ==
    [opens : BOOLEAN, enumerates : BOOLEAN, declared : DeclaredLists]

\* The root repository of the aggregation runs: it opens and enumerates
\* its one submodule, whose name, url and head are known.
FixtureRoot ==
    [opens |-> TRUE, enumerates |-> TRUE,
     declared |-> [i \in 1 .. Len(Declared) |->
                      [name |-> Some(Declared[i]), path |-> Declared[i],
                       url |-> Some("url"), head_id |-> Some("oid")]]]

\* if let Ok(submodules) = repo.submodules(): the submodules the loop
\* runs over, none when the enumeration fails.
Enumerated(r) == IF r.enumerates THEN r.declared ELSE <<>>

\* The SubmoduleInfo pushed for a submodule, Utc::now() returning now.
SubmoduleInfoOf(submodule, now) ==
    [name         |-> UnwrapOr(submodule.name, "unknown"),
     path         |-> submodule.path,
     url          |-> UnwrapOr(submodule.url, "unknown"),
     commit_hash  |-> IF submodule.head_id # None
                      THEN submodule.head_id[1] ELSE "unknown",
     last_updated |-> now]

\* The SubmoduleInfo pushed for the root repository.
RootInfo(now) ==
    [name |-> "root", path |-> RootPath, url |-> "local",
     commit_hash |-> "HEAD", last_updated |-> now]

\* Variant: the error of repo.submodules() is returned to the caller.
DiscoverOrFail(found, r, nows) ==
    IF ~r.opens \/ ~r.enumerates
    THEN [ok |-> FALSE, submodules |-> found]
    ELSE [ok |-> TRUE,
          submodules |->
              found
              \o [i \in 1 .. Len(r.declared) |->
                      SubmoduleInfoOf(r.declared[i], nows[i])]
              \o << RootInfo(nows[Len(r.declared) + 1]) >>]

\* Variant: the root repository is pushed before the loop.
DiscoverRootFirst(found, r, nows) ==
    IF ~r.opens
    THEN [ok |-> FALSE, submodules |-> found]
    ELSE LET enumerated == Enumerated(r) IN
         [ok |-> TRUE,
          submodules |->
              found
              \o << RootInfo(nows[Len(enumerated) + 1]) >>
              \o [i \in 1 .. Len(enumerated) |->
                      SubmoduleInfoOf(enumerated[i], nows[i])]]

\* discover_submodules on a collector whose list is found, the clock
\* reading nows[i] at the i-th push: Err when the root does not open;
\* otherwise one SubmoduleInfo per enumerated submodule, in the order of
\* enumeration, then the root repository as a pseudo-submodule.
discover_submodules(found, r, nows) ==
    IF ~r.opens
    THEN [ok |-> FALSE, submodules |-> found]
    ELSE LET enumerated == Enumerated(r) IN
         [ok |-> TRUE,
          submodules |->
              found
              \o [i \in 1 .. Len(enumerated) |->
                      SubmoduleInfoOf(enumerated[i], nows[i])]
              \o << RootInfo(nows[Len(enumerated) + 1]) >>]

\* ------------------------------------------------------------ collection
\* calculate_diff_stats: Err when the tree diff fails, else the statistics.
calculate_diff_stats(commit) ==
    IF commit.diff_ok
    THEN [ok |-> TRUE,
          val |-> [insertions |-> 1, deletions |-> 0, files_changed |-> 1]]
    ELSE [ok |-> FALSE, val |-> EmptyDiffStats]

\* Variant: a commit whose author name is unreadable is an error.
CreateLogEntryOrFail(commit, hash, submodule_name) ==
    LET diff_stats == calculate_diff_stats(commit) IN
    IF ~diff_stats.ok \/ commit.author = None
    THEN [ok |-> FALSE, val |-> None]
    ELSE [ok |-> TRUE,
          val |-> [id            |-> <<submodule_name, hash>>,
                   timestamp     |-> commit.time,
                   commit_hash   |-> hash,
                   author        |-> commit.author[1],
                   message       |-> UnwrapOr(commit.message, ""),
                   submodule_path |-> submodule_name,
                   diff_stats    |-> diff_stats.val]]

\* create_log_entry_from_commit: the `?` on calculate_diff_stats returns the
\* error to the caller; otherwise the entry is built from the commit, with
\* "unknown" for an unreadable author name and "" for an unreadable message.
create_log_entry_from_commit(commit, hash, submodule_name) ==
    LET diff_stats == calculate_diff_stats(commit) IN
    IF ~diff_stats.ok
    THEN [ok |-> FALSE, val |-> None]
    ELSE [ok |-> TRUE,
          val |-> [id            |-> <<submodule_name, hash>>,
                   timestamp     |-> commit.time,
                   commit_hash   |-> hash,
                   author        |-> UnwrapOr(commit.author, "unknown"),
                   message       |-> UnwrapOr(commit.message, ""),
                   submodule_path |-> submodule_name,
                   diff_stats    |-> diff_stats.val]]

\* The loop of collect_logs_from_path over commits i .. Len(commits): the
\* first failing commit ends the walk with Err and the entries pushed so far
\* are discarded with the local vector.
RECURSIVE WalkCommits(_, _, _, _)
WalkCommits(commits, i, submodule_name, logs) ==
    IF i > Len(commits)
    THEN [ok |-> TRUE, logs |-> logs]
    ELSE LET log_entry ==
                create_log_entry_from_commit(commits[i], i, submodule_name)
         IN  IF ~log_entry.ok
             THEN [ok |-> FALSE, logs |-> <<>>]
             ELSE WalkCommits(commits, i + 1, submodule_name,
                              Append(logs, log_entry.val))

collect_logs_from_path(repo, submodule_name) ==
    IF ~repo.opens
    THEN [ok |-> FALSE, logs |-> <<>>]
    ELSE WalkCommits(repo.commits, 1, submodule_name, <<>>)

\* The loop of collect_all_submodule_logs over submodules i .. Len(subs).
RECURSIVE CollectFrom(_, _, _, _)
CollectFrom(world, subs, i, acc) ==
    IF i > Len(subs)
    THEN acc
    ELSE LET submodule == subs[i]
             repo == world[submodule.path]
         IN  IF ~repo.exists
             THEN CollectFrom(world, subs, i + 1, acc)
             ELSE LET r == collect_logs_from_path(repo, submodule.name)
                  IN  IF r.ok
                      THEN CollectFrom(world, subs, i + 1, acc \o r.logs)
                      ELSE CollectFrom(world, subs, i + 1, acc)

\* Variant: the error of a failed run of term_quiz_master is returned to
\* the caller.
EnhanceOrFail(logs, quiz) ==
    IF \E i \in 1 .. Len(logs) : i \notin quiz
    THEN [ok |-> FALSE, logs |-> <<>>]
    ELSE [ok |-> TRUE, logs |-> logs]

\* enhance_with_ragit_analysis: runs term_quiz_master on every message;
\* quiz is the set of positions whose run succeeded.  The result of a run
\* is only logged, the entries are returned as they came.
enhance_with_ragit_analysis(logs, quiz) ==
    [ok |-> TRUE,
     logs |-> [i \in 1 .. Len(logs) |->
                 IF i \in quiz THEN logs[i] ELSE logs[i]]]

\* Variant: the error of a failed collection is returned to the caller
\* (`?` in place of the match that logs it).
CollectAllOrFail(world, subs, ragit, quiz) ==
    IF \E i \in 1 .. Len(subs) :
          /\ world[subs[i].path].exists
          /\ ~collect_logs_from_path(world[subs[i].path], subs[i].name).ok
    THEN [ok |-> FALSE, logs |-> <<>>]
    ELSE [ok |-> TRUE, logs |-> CollectFrom(world, subs, 1, <<>>)]

collect_all_submodule_logs(world, subs, ragit, quiz) ==
    LET collected == CollectFrom(world, subs, 1, <<>>) IN
    IF ragit
    THEN enhance_with_ragit_analysis(collected, quiz)
    ELSE [ok |-> TRUE, logs |-> collected]

\* ------------------------------------------------------- timestamp index
\* BTreeMap<DateTime<Utc>, LogEntry> is a function from its keys to values.
EmptyMap == << >>

\* Variant: a value already stored under the key is kept.
MapInsertIfAbsent(m, k, v) ==
    [x \in (DOMAIN m) \cup {k} |-> IF x \in DOMAIN m THEN m[x] ELSE v]

\* BTreeMap::insert: a value already stored under the key is replaced.
MapInsert(m, k, v) ==
    [x \in (DOMAIN m) \cup {k} |-> IF x = k THEN v ELSE m[x]]

SetMin(S) == CHOOSE x \in S : \A y \in S : x <= y

\* BTreeMap::keys / values: iteration in ascending key order.
\* Variant: the iteration yields the keys in descending order.
RECURSIVE KeysDescending(_)
KeysDescending(S) ==
    IF S = {} THEN <<>>
    ELSE LET k == SetMin(S) IN KeysDescending(S \ {k}) \o <<k>>

RECURSIVE KeysAscending(_)
KeysAscending(S) ==
    IF S = {} THEN <<>>
    ELSE LET k == SetMin(S) IN <<k>> \o KeysAscending(S \ {k})

MapKeys(m) == KeysAscending(DOMAIN m)
MapValues(m) == LET ks == MapKeys(m) IN [i \in 1 .. Len(ks) |-> m[ks[i]]]

\* Variant: the index is keyed by the commit hash.
IndexKeyByHash(log_entry) == log_entry.commit_hash

\* The key order_by_timestamp files an entry under.
IndexKey(log_entry) == log_entry.timestamp

\* The loop of order_by_timestamp over logs[i ..].
RECURSIVE InsertAll(_, _, _)
InsertAll(m, logs, i) ==
    IF i > Len(logs) THEN m
    ELSE InsertAll(MapInsert(m, IndexKey(logs[i]), logs[i]), logs, i + 1)

\* Variant: the count of a label not seen before starts at 1.
CountEntryFromOne(counts, label) ==
    MapInsert(counts, label,
              (IF label \in DOMAIN counts THEN counts[label] ELSE 1) + 1)

\* *stats.entry(label).or_insert(0) += 1
CountEntry(counts, label) ==
    MapInsert(counts, label,
              (IF label \in DOMAIN counts THEN counts[label] ELSE 0) + 1)

\* The loop of get_submodule_stats over entries i .. Len(entries).
RECURSIVE CountAll(_, _, _)
CountAll(counts, entries, i) ==
    IF i > Len(entries) THEN counts
    ELSE CountAll(CountEntry(counts, entries[i].submodule_path),
                  entries, i + 1)

\* get_submodule_stats: the number of entries of the index per label.
get_submodule_stats(m) == CountAll(EmptyMap, MapValues(m), 1)

\* Variant: the index is not cleared before the entries are inserted.
KeptMap(m) == m

\* self.timestamp_ordering.clear()
Cleared(m) == EmptyMap

\* The first key from k on that m does not hold.
RECURSIVE FreeKey(_, _)
FreeKey(m, k) == IF k \in DOMAIN m THEN FreeKey(m, k + 1) ELSE k

\* Variant: the loop files an entry under the first free key from its
\* timestamp on, into the index as the call found it.
RECURSIVE AppendAll(_, _, _)
AppendAll(m, logs, i) ==
    IF i > Len(logs) THEN m
    ELSE AppendAll(MapInsert(m, FreeKey(m, IndexKey(logs[i])), logs[i]),
                   logs, i + 1)

\* Variant: order_by_timestamp adds to the index it finds, keeping entries
\* whose keys collide.
OrderAppending(m, logs) == AppendAll(m, logs, 1)

\* order_by_timestamp on a collector whose index is m: clear, then insert
\* every entry under its timestamp.
order_by_timestamp(m, logs) == InsertAll(Cleared(m), logs, 1)

\* ------------------------------------------------------------ pagination
Min(a, b) == IF a <= b THEN a ELSE b
SaturatingSub(a, b) == IF a >= b THEN a - b ELSE 0

\* iter.skip(n).take(k).collect()
SkipTake(seq, n, k) ==
    [i \in 1 .. Min(k, SaturatingSub(Len(seq), n)) |-> seq[n + i]]

\* Variant: n is taken for a position counted from 1.
NthTimestampFromOne(seq, n) ==
    IF 1 <= n /\ n <= Len(seq) THEN Some(seq[n].timestamp) ELSE None

\* iter.nth(n).map(|e| e.timestamp)
NthTimestamp(seq, n) ==
    IF n < Len(seq) THEN Some(seq[n + 1].timestamp) ELSE None

\* Variant: page numbers are taken to count from 0.
StartIdxFromZero(p, size) == p * size

\* start_idx: page.saturating_sub(1) * self.page_size
StartIdx(p, size) == SaturatingSub(p, 1) * size

\* Variant: the first item of page p is taken at p * page_size.
PageItemsFromNext(m, size, p) == SkipTake(MapValues(m), p * size, size)

\* the items of page p: values().skip(start_idx).take(page_size)
PageItems(m, size, p) ==
    SkipTake(MapValues(m), StartIdx(p, size), size)

\* Variant: the division rounds down.
TotalPagesFloor(total_entries, size) == total_entries \div size

\* (total_entries + self.page_size - 1) / self.page_size
TotalPagesOf(total_entries, size) == (total_entries + size - 1) \div size

\* Variant: a page that ends with the last entry can be continued.
CanContinueAtEnd(end_idx, total_entries) == end_idx <= total_entries

\* can_continue: end_idx < total_entries
CanContinue(end_idx, total_entries) == end_idx < total_entries

PageMetadata ==
    [total_concepts |-> 0, emoji_density |-> 0, quality_score |-> 0,
     reaction_count |-> 0, hot_take_count |-> 0]

\* paginate(page) on index m with page size size; now1 and now2 are what
\* the two calls of Utc::now() return when the page has no items.  The
\* result is Some(Page), or None when the call panics: with size = 0 the
\* computation of total_pages does (the subtraction underflows on an empty
\* index, the division is by zero otherwise).
paginate(m, size, p, now1, now2) ==
    IF size = 0 THEN None
    ELSE
    LET values        == MapValues(m)
        total_entries == Len(values)
        total_pages   == TotalPagesOf(total_entries, size)
        start_idx     == StartIdx(p, size)
        end_idx       == Min(start_idx + size, total_entries)
        items         == PageItems(m, size, p)
        range         == IF items # <<>>
                         THEN <<items[1].timestamp,
                                items[Len(items)].timestamp>>
                         ELSE <<now1, now2>>
        navigation    ==
            [previous_timestamp |->
                 IF p > 1
                 THEN NthTimestamp(values, SaturatingSub(start_idx, 1))
                 ELSE None,
             next_timestamp |->
                 IF end_idx < total_entries
                 THEN NthTimestamp(values, end_idx)
                 ELSE None,
             can_continue |-> CanContinue(end_idx, total_entries),
             can_go_back  |-> p > 1,
             bookmark_id  |-> None]
    IN  Some([page_number     |-> p,
              total_pages     |-> total_pages,
              items           |-> items,
              timestamp_range |-> range,
              navigation      |-> navigation,
              metadata        |-> PageMetadata])

\* keys().position(|&t| t >= timestamp): 0-based, None when there is none.
RECURSIVE PositionFrom(_, _, _)
PositionFrom(keys, i, timestamp) ==
    IF i > Len(keys) THEN None
    ELSE IF keys[i] >= timestamp THEN Some(i - 1)
    ELSE PositionFrom(keys, i + 1, timestamp)

\* .unwrap_or(0)
PositionOrDefault(pos) == IF pos = None THEN 0 ELSE pos[1]

\* Variant: the 0-based page of the position is taken for the page number.
ResumePageZeroBased(position, size) == position \div size

\* the page number continue_from_timestamp asks paginate for
ResumePage(position, size) == (position \div size) + 1

\* the position continue_from_timestamp resumes at
ResumePosition(m, timestamp) ==
    PositionOrDefault(PositionFrom(MapKeys(m), 1, timestamp))

continue_from_timestamp(m, size, timestamp, now1, now2) ==
    LET position == ResumePosition(m, timestamp)
    IN  IF size = 0 THEN None
        ELSE paginate(m, size, ResumePage(position, size), now1, now2)

\* ----------------------------------------------------------------- state
MaxLogs == (Len(Declared) + 1) * MaxCommits
\* term_quiz_master fails on every entry, succeeds on the first only, or
\* succeeds on all of them
QuizOutcomes == { {}, {1}, 1 .. MaxLogs }
\* What the two Utc::now() of paginate(p) return; the clock is read only
\* when the page has no items (and the call has not panicked before).
NowReads(m, size, p) ==
    IF size > 0 /\ PageItems(m, size, p) = <<>>
    THEN { now \in ClockTimes \X ClockTimes : now[1] <= now[2] }
    ELSE { <<0, 0>> }
\* Page numbers asked for: 0, every page of the index and one past the end.
PageNumbers(m) == 0 .. (Cardinality(DOMAIN m) + 1)
\* Time stamps resumed from: every commit time and one later than all.
ResumeTimes == 1 .. (MaxTime + 1)

\* The root repository was opened by GitLogCollector::new: it exists.
Worlds == { w \in [Paths -> RepoStates] : w[RootPath].exists }

\* What n successive calls of Utc::now() return.
ClockReads(n) ==
    { nows \in [1 .. n -> ClockTimes] :
        \A i \in 1 .. n - 1 : nows[i] <= nows[i + 1] }

\* The state after GitLogCollector::new succeeded on the fixture root at
\* the first clock time, the repositories being as one of worlds has them.
InitIn(worlds) ==
    /\ root = FixtureRoot
    /\ repos \in worlds
    /\ submodules =
          discover_submodules(<<>>, FixtureRoot,
              [i \in 1 .. Len(Declared) + 1 |-> MaxTime + 1]).submodules
    /\ timestamp_ordering = EmptyMap
    /\ current_page = 0
    /\ page_size \in 0 .. MaxPageSize
    /\ ragit_integration \in BOOLEAN
    /\ all_logs = NoLogs
    /\ pc = "new"
    /\ call = NoCall
    /\ page = None
    /\ stats = None
    /\ quiz_session = NoQuiz

Init == InitIn(Worlds)

\* let logs = git_collector.collect_all_submodule_logs()?;
CollectAllSubmoduleLogs ==
    /\ pc = "new"
    /\ \E quiz \in (IF ragit_integration THEN QuizOutcomes ELSE {{}}) :
          all_logs' = collect_all_submodule_logs(repos, submodules,
                                                 ragit_integration, quiz)
    /\ pc' = "collected"
    /\ UNCHANGED <<stats, quiz_session, root, repos, submodules, timestamp_ordering, current_page,
                   page_size, ragit_integration, call, page>>

\* git_collector.order_by_timestamp(&logs);
OrderByTimestamp ==
    /\ pc \in {"collected", "ordered"}
    /\ all_logs.ok
    /\ timestamp_ordering' = order_by_timestamp(timestamp_ordering,
                                                all_logs.logs)
    /\ pc' = "ordered"
    /\ UNCHANGED <<stats, quiz_session, root, repos, submodules, current_page, page_size,
                   ragit_integration, all_logs, call, page>>

\* let page = git_collector.paginate(p);
Paginate ==
    /\ pc = "ordered"
    /\ \E p \in PageNumbers(timestamp_ordering) :
       \E now \in NowReads(timestamp_ordering, page_size, p) :
          /\ page' = paginate(timestamp_ordering, page_size, p,
                              now[1], now[2])
          /\ call' = [op |-> "paginate", arg |-> p,
                      panicked |-> (page' = None)]
    /\ UNCHANGED <<stats, quiz_session, root, repos, submodules, timestamp_ordering, current_page,
                   page_size, ragit_integration, all_logs, pc>>

\* let page = git_collector.continue_from_timestamp(timestamp);
ContinueFromTimestamp ==
    /\ pc = "ordered"
    /\ \E t \in ResumeTimes :
       \E now \in NowReads(timestamp_ordering, page_size,
                    IF page_size = 0 THEN 0
                    ELSE ResumePage(ResumePosition(timestamp_ordering, t),
                                    page_size)) :
          /\ page' = continue_from_timestamp(timestamp_ordering, page_size,
                                             t, now[1], now[2])
          /\ call' = [op |-> "continue", arg |-> t,
                      panicked |-> (page' = None)]
    /\ UNCHANGED <<stats, quiz_session, root, repos, submodules, timestamp_ordering, current_page,
                   page_size, ragit_integration, all_logs, pc>>

Next ==
    \/ CollectAllSubmoduleLogs
    \/ OrderByTimestamp
    \/ Paginate
    \/ ContinueFromTimestamp

Spec == Init /\ [][Next]_vars

\* The aggregation stage alone, over every state of the repositories.
NextAggregate ==
    \/ CollectAllSubmoduleLogs
    \/ OrderByTimestamp

SpecAggregate == Init /\ [][NextAggregate]_vars

\* The whole pipeline over repositories that all open and diff, without the
\* term_quiz_master tool installed.
HealthyRepoStates ==
    { r \in RepoStates :
        /\ r.exists /\ r.opens
        /\ \A i \in 1 .. Len(r.commits) : r.commits[i].diff_ok }

InitHealthy == InitIn([Paths -> HealthyRepoStates]) /\ ~ragit_integration

SpecPaging == InitHealthy /\ [][Next]_vars

\* let stats = git_collector.get_submodule_stats();
GetSubmoduleStats ==
    /\ pc \in {"collected", "ordered"}
    /\ stats' = Some(get_submodule_stats(timestamp_ordering))
    /\ UNCHANGED <<quiz_session, root, repos, submodules, timestamp_ordering,
                   current_page, page_size, ragit_integration, all_logs,
                   pc, call, page>>

\* The CollectLogs command, and the statistics taken after the index is
\* built as well, over healthy repositories.
NextStats ==
    \/ CollectAllSubmoduleLogs
    \/ OrderByTimestamp
    \/ GetSubmoduleStats

SpecStats == InitHealthy /\ [][NextStats]_vars

\* InteractiveQuizSession::should_continue
should_continue(session) ==
    session.pages_processed < session.target_pages

\* InteractiveQuizSession::process_page, which returns Ok: the count of
\* pages processed goes up by one.
process_page(session) ==
    [session EXCEPT !.pages_processed = @ + 1]

\* let mut quiz_session = InteractiveQuizSession::new(target_pages);
\* let mut current_page = 1;
StartQuiz ==
    /\ pc = "ordered"
    /\ \E target_pages \in 0 .. MaxTargetPages :
          quiz_session' = [current_page |-> 1, pages_processed |-> 0,
                           target_pages |-> target_pages,
                           ended |-> "running"]
    /\ pc' = "quiz"
    /\ UNCHANGED <<stats, root, repos, submodules, timestamp_ordering,
                   current_page, page_size, ragit_integration, all_logs,
                   call, page>>

\* One iteration of the loop of run_interactive_quiz: paginate, break on a
\* page without items, process_page, read_line().unwrap(), current_page += 1.
\* A panic of paginate or of the unwrap ends the run.
QuizIteration ==
    /\ pc = "quiz"
    /\ should_continue(quiz_session)
    /\ quiz_session.current_page <= quiz_session.target_pages
    /\ \E now \in NowReads(timestamp_ordering, page_size,
                            quiz_session.current_page) :
       \E input_ok \in BOOLEAN :
          LET result == paginate(timestamp_ordering, page_size,
                                 quiz_session.current_page, now[1], now[2])
          IN  /\ page' = result
              /\ call' = [op |-> "paginate",
                          arg |-> quiz_session.current_page,
                          panicked |-> (result = None)]
              /\ IF result = None
                 THEN /\ quiz_session' = [quiz_session EXCEPT
                                            !.ended = "paginate panicked"]
                      /\ pc' = "quiz over"
                 ELSE IF result[1].items = <<>>
                 THEN /\ quiz_session' = [quiz_session EXCEPT
                                            !.ended = "break"]
                      /\ pc' = "quiz over"
                 ELSE IF ~input_ok
                 THEN /\ quiz_session' = [process_page(quiz_session) EXCEPT
                                            !.ended = "read_line panicked"]
                      /\ pc' = "quiz over"
                 ELSE /\ quiz_session' = [process_page(quiz_session) EXCEPT
                                            !.current_page = @ + 1]
                      /\ pc' = pc
    /\ UNCHANGED <<stats, root, repos, submodules, timestamp_ordering,
                   current_page, page_size, ragit_integration, all_logs>>

\* The condition of the while loop is false.
QuizExit ==
    /\ pc = "quiz"
    /\ ~( /\ should_continue(quiz_session)
          /\ quiz_session.current_page <= quiz_session.target_pages )
    /\ quiz_session' = [quiz_session EXCEPT !.ended = "condition"]
    /\ pc' = "quiz over"
    /\ UNCHANGED <<stats, root, repos, submodules, timestamp_ordering,
                   current_page, page_size, ragit_integration, all_logs,
                   call, page>>

\* The Quiz command over healthy repositories.
NextQuiz ==
    \/ CollectAllSubmoduleLogs
    \/ OrderByTimestamp
    \/ StartQuiz
    \/ QuizIteration
    \/ QuizExit

SpecQuiz == InitHealthy /\ [][NextQuiz]_vars

\* The collection alone, over a root repository whose commits may have an
\* unreadable author name or message and a submodule that is healthy.
MetadataWorlds ==
    { [p \in Paths |-> IF p = RootPath
                       THEN [exists |-> TRUE, opens |-> TRUE, commits |-> h]
                       ELSE s] :
        h \in HistoriesOf(CommitAnyMetadata), s \in HealthyRepoStates }

InitMetadata == InitIn(MetadataWorlds) /\ ~ragit_integration

NextCollect == CollectAllSubmoduleLogs

SpecMetadata == InitMetadata /\ [][NextCollect]_vars

\* Variant: collecting again empties the index built from the earlier list.
CollectAgainClearing ==
    /\ pc = "ordered"
    /\ \E quiz \in (IF ragit_integration THEN QuizOutcomes ELSE {{}}) :
          all_logs' = collect_all_submodule_logs(repos, submodules,
                                                 ragit_integration, quiz)
    /\ timestamp_ordering' = EmptyMap
    /\ pc' = "collected"
    /\ UNCHANGED <<stats, quiz_session, root, repos, submodules, current_page, page_size,
                   ragit_integration, call, page>>

\* collect_all_submodule_logs called once more, on a collector whose index
\* is built.
CollectAgain ==
    /\ pc = "ordered"
    /\ \E quiz \in (IF ragit_integration THEN QuizOutcomes ELSE {{}}) :
          all_logs' = collect_all_submodule_logs(repos, submodules,
                                                 ragit_integration, quiz)
    /\ pc' = "collected"
    /\ UNCHANGED <<stats, quiz_session, root, repos, submodules, timestamp_ordering, current_page,
                   page_size, ragit_integration, call, page>>

\* Aggregation runs repeated on one collector, over every state of the
\* repositories.
NextRepeat ==
    \/ CollectAllSubmoduleLogs
    \/ OrderByTimestamp
    \/ CollectAgain

SpecRepeat == Init /\ [][NextRepeat]_vars

\* The slices &logs[a .. b] of a list, the empty one included.
Slices(logs) ==
    { SubSeq(logs, ab[1], ab[2]) :
        ab \in { x \in (1 .. Len(logs) + 1) \X (0 .. Len(logs)) :
                    x[1] <= x[2] + 1 } }

\* The list collect_all_submodule_logs returns without the analysis tool.
Aggregated ==
    collect_all_submodule_logs(repos, submodules, FALSE, {}).logs

\* The caller, its index built, takes a slice of the aggregated list for
\* the next call of order_by_timestamp(logs: &[LogEntry]).
TakeSlice ==
    /\ pc = "ordered"
    /\ \E logs \in Slices(Aggregated) :
          all_logs' = [ok |-> TRUE, logs |-> logs]
    /\ pc' = "collected"
    /\ UNCHANGED <<stats, quiz_session, root, repos, submodules, timestamp_ordering, current_page,
                   page_size, ragit_integration, call, page>>

\* A collector whose index is built again and again, from one slice of the
\* aggregated list after another.
NextRebuild ==
    \/ CollectAllSubmoduleLogs
    \/ OrderByTimestamp
    \/ TakeSlice

SpecRebuild == InitHealthy /\ [][NextRebuild]_vars

\* Before GitLogCollector::new(root_path, page_size): the fields are those
\* of the struct new builds first, the root is in any state, and the
\* repositories have no commits.
InitStart ==
    /\ root \in RootStates
    /\ repos = [p \in Paths |->
                   [exists |-> TRUE, opens |-> root.opens, commits |-> <<>>]]
    /\ submodules = <<>>
    /\ timestamp_ordering = EmptyMap
    /\ current_page = 0
    /\ page_size \in 0 .. MaxPageSize
    /\ ragit_integration \in BOOLEAN
    /\ all_logs = NoLogs
    /\ pc = "start"
    /\ call = NoCall
    /\ page = None
    /\ stats = None
    /\ quiz_session = NoQuiz

\* Variant: new returns an error when page_size is 0.
NewRejectingZero ==
    /\ pc = "start"
    /\ \E nows \in ClockReads(Len(Enumerated(root)) + 1) :
          LET discovered == discover_submodules(submodules, root, nows)
          IN  IF discovered.ok /\ page_size > 0
              THEN /\ submodules' = discovered.submodules
                   /\ pc' = "new"
              ELSE /\ submodules' = <<>>
                   /\ pc' = "failed"
    /\ UNCHANGED <<stats, quiz_session, root, repos, timestamp_ordering, current_page, page_size,
                   ragit_integration, all_logs, call, page>>

\* let mut git_collector = GitLogCollector::new(&repo_path, page_size)?;
\* when discover_submodules returns Err the collector is dropped.
New ==
    /\ pc = "start"
    /\ \E nows \in ClockReads(Len(Enumerated(root)) + 1) :
          LET discovered == discover_submodules(submodules, root, nows)
          IN  IF discovered.ok
              THEN /\ submodules' = discovered.submodules
                   /\ pc' = "new"
              ELSE /\ submodules' = <<>>
                   /\ pc' = "failed"
    /\ UNCHANGED <<stats, quiz_session, root, repos, timestamp_ordering, current_page, page_size,
                   ragit_integration, all_logs, call, page>>

\* Construction alone, over every state of the root repository.
NextDiscovery == New

SpecDiscovery == InitStart /\ [][NextDiscovery]_vars

\* Before GitLogCollector::new on the fixture root, which may fail to open
\* or to enumerate; the submodule has no commits, the root repository has
\* any healthy history, and the analysis tool is not installed.
InitLifecycle ==
    /\ root \in { [FixtureRoot EXCEPT !.opens = o, !.enumerates = e] :
                     o \in BOOLEAN, e \in BOOLEAN }
    /\ repos \in { w \in [Paths -> HealthyRepoStates] :
                      \A p \in Paths \ {RootPath} : w[p].commits = <<>> }
    /\ submodules = <<>>
    /\ timestamp_ordering = EmptyMap
    /\ current_page = 0
    /\ page_size \in 0 .. MaxPageSize
    /\ ragit_integration = FALSE
    /\ all_logs = NoLogs
    /\ pc = "start"
    /\ call = NoCall
    /\ page = None
    /\ stats = None
    /\ quiz_session = NoQuiz

\* A command of the binary from the construction of its collector to the
\* pages it asks for.
NextLifecycle ==
    \/ New
    \/ CollectAllSubmoduleLogs
    \/ OrderByTimestamp
    \/ Paginate
    \/ ContinueFromTimestamp

SpecLifecycle == InitLifecycle /\ [][NextLifecycle]_vars

\* ======================================================================
\* Properties
\* ======================================================================
\* The index as its iteration yields it.
Index == MapValues(timestamp_ordering)

\* The aggregated list the index was (or will be) built from.
Logs == all_logs.logs

NonDecreasing(seq) ==
    \A i \in 1 .. Len(seq) - 1 : seq[i].timestamp <= seq[i + 1].timestamp

SharesTimestamp(seq) ==
    \E i, j \in 1 .. Len(seq) : i # j /\ seq[i].timestamp = seq[j].timestamp

\* Number of pages of the index at page size size >= 1.
TotalPages(size) == (Len(Index) + size - 1) \div size

\* C1: after order_by_timestamp(logs) the index has as many entries as logs,
\* also when several entries of logs carry the same timestamp.
C1_Completeness ==
    pc = "ordered" => Len(Index) = Len(Logs)

\* Order of the labels under which entries are collected ("root" < "sub1").
PathRank(label) == IF label = "root" THEN 1 ELSE 2

TieBreakOrdered(e, f) ==
    \/ PathRank(e.submodule_path) < PathRank(f.submodule_path)
    \/ /\ e.submodule_path = f.submodule_path
       /\ e.commit_hash <= f.commit_hash

\* C2: entries of logs that share a timestamp are all in the index after
\* order_by_timestamp, in ascending (submodule_path, commit_hash) order.
C2_TieBreak ==
    pc = "ordered" =>
        /\ \A i \in 1 .. Len(Logs) :
              \E j \in 1 .. Len(Index) : Index[j] = Logs[i]
        /\ \A i, j \in 1 .. Len(Index) :
              (i < j /\ Index[i].timestamp = Index[j].timestamp)
                  => TieBreakOrdered(Index[i], Index[j])

\* C3: iterating the index yields non-decreasing timestamps, and so do the
\* items of the page last returned and of every page of the index, one
\* page after the other.
C3_Ordering ==
    /\ NonDecreasing(Index)
    /\ page # None => NonDecreasing(page[1].items)
    /\ page_size >= 1 =>
          \A p \in 1 .. TotalPages(page_size) :
              LET here == PageItems(timestamp_ordering, page_size, p)
                  next == PageItems(timestamp_ordering, page_size, p + 1)
              IN  /\ NonDecreasing(here)
                  /\ (here # <<>> /\ next # <<>>)
                        => here[Len(here)].timestamp <= next[1].timestamp

\* An index of several entries was built and a page of several items
\* returned from it.
C3_Witness ==
    /\ pc = "ordered"
    /\ Len(Index) >= 3
    /\ page # None
    /\ Len(page[1].items) >= 2
    /\ TotalPages(page_size) >= 2

\* The items of pages 1 .. p as paginate returns them, one after the other.
RECURSIVE ConcatPages(_)
ConcatPages(p) ==
    IF p = 0 THEN <<>>
    ELSE ConcatPages(p - 1)
         \o paginate(timestamp_ordering, page_size, p, 0, 0)[1].items

Occurrences(seq, e) == Cardinality({ j \in 1 .. Len(seq) : seq[j] = e })

\* C4: for page_size >= 1 the items of paginate(1) .. paginate(total_pages),
\* concatenated, are the aggregated entries in timestamp order, each exactly
\* once.
C4_Coverage ==
    (pc = "ordered" /\ page_size >= 1) =>
        LET total_pages ==
                paginate(timestamp_ordering, page_size, 1, 0, 0)[1].total_pages
            all == ConcatPages(total_pages)
        IN  /\ Len(all) = Len(Logs)
            /\ NonDecreasing(all)
            /\ \A i \in 1 .. Len(Logs) : Occurrences(all, Logs[i]) = 1

\* The call returned by the last step was continue_from_timestamp(T) and it
\* returned a page.
Resumed == call.op = "continue" /\ page # None
\* Some entry of the index has timestamp >= T.
Reaches(T) == \E k \in DOMAIN timestamp_ordering : k >= T

\* C5: for T the timestamp of an entry of the index, the first item of the
\* page continue_from_timestamp(T) returns has a timestamp >= T.
C5_ResumeFirstItem ==
    (Resumed /\ call.arg \in DOMAIN timestamp_ordering) =>
        /\ page[1].items # <<>>
        /\ page[1].items[1].timestamp >= call.arg

\* C6: when the index is not empty and no entry has timestamp >= T,
\* continue_from_timestamp(T) returns the last page, paginate(total_pages).
C6_ResumePastEnd ==
    (Resumed /\ Index # <<>> /\ ~Reaches(call.arg)) =>
        LET last == TotalPages(page_size) IN
        /\ page[1].page_number = last
        /\ page[1].items = PageItems(timestamp_ordering, page_size, last)

\* 0-based position of the first entry with timestamp >= T, when there is one:
\* the number of entries before it.
PositionOf(T) == Cardinality({ k \in DOMAIN timestamp_ordering : k < T })

\* C7: when some entry has timestamp >= T, continue_from_timestamp(T)
\* returns the page paginate(position(T) / page_size + 1), and the entry at
\* position(T) is among its items.
C7_ResumePage ==
    (Resumed /\ Reaches(call.arg)) =>
        LET position == PositionOf(call.arg)
            number   == (position \div page_size) + 1
        IN  /\ page = paginate(timestamp_ordering, page_size, number, 0, 0)
            /\ page[1].page_number = number
            /\ page[1].items =
                  SkipTake(Index, (number - 1) * page_size, page_size)
            /\ \E i \in 1 .. Len(page[1].items) :
                  page[1].items[i] = Index[position + 1]

\* A resume inside a page of an index of several pages: T is not the
\* first timestamp of the page returned.
C7_Witness ==
    /\ Resumed /\ Reaches(call.arg)
    /\ PositionOf(call.arg) % page_size # 0
    /\ page[1].total_pages >= 2
    /\ page[1].items[1].timestamp < call.arg

\* The collection of a repository succeeds when its path exists, it opens
\* and every commit of its history can be diffed.
Succeeds(r) ==
    /\ r.exists /\ r.opens
    /\ \A i \in 1 .. Len(r.commits) : r.commits[i].diff_ok

\* The entries of the aggregated list collected under a label.
EntriesOf(label) ==
    LET Mine(e) == e.submodule_path = label IN SelectSeq(Logs, Mine)

\* C8: whatever subset of the discovered repositories is missing or fails,
\* collect_all_submodule_logs succeeds, and its result holds every entry of
\* every repository whose collection succeeded and none of a failed one.
C8_PartialFailure ==
    pc # "new" =>
        /\ all_logs.ok
        /\ \A s \in 1 .. Len(submodules) :
              LET r    == repos[submodules[s].path]
                  mine == EntriesOf(submodules[s].name)
              IN  IF Succeeds(r)
                  THEN /\ Len(mine) = Len(r.commits)
                       /\ \A i \in 1 .. Len(mine) :
                             /\ mine[i].commit_hash = i
                             /\ mine[i].timestamp = r.commits[i].time
                  ELSE mine = <<>>

\* The collection of the submodule, which comes first, failed, and the
\* history of the root repository was collected after it.
C8_Witness ==
    /\ pc = "collected"
    /\ repos["sub1"].exists /\ ~Succeeds(repos["sub1"])
    /\ Succeeds(repos[RootPath])
    /\ Len(EntriesOf("root")) >= 2

\* C9: a commit whose tree diff fails is recorded with empty diff
\* statistics, and the other commits of its repository are collected.
C9_DiffFailureContained ==
    pc # "new" =>
        \A s \in 1 .. Len(submodules) :
            LET r    == repos[submodules[s].path]
                mine == EntriesOf(submodules[s].name)
            IN  (r.exists /\ r.opens) =>
                  \A i \in 1 .. Len(r.commits) :
                      \E j \in 1 .. Len(mine) :
                          /\ mine[j].commit_hash = i
                          /\ mine[j].timestamp = r.commits[i].time
                          /\ ~r.commits[i].diff_ok
                                => mine[j].diff_stats = EmptyDiffStats

\* C10: two calls of paginate, or of continue_from_timestamp, with the same
\* argument on the same index return the same Page, whatever the clock.
C10_Deterministic ==
    [][ ( /\ call'.op \in {"paginate", "continue"}
          /\ call'.op = call.op
          /\ call'.arg = call.arg
          /\ timestamp_ordering' = timestamp_ordering )
        => page' = page ]_vars

\* What paginate(p) would return on index m when the clock reads now.
PagesOf(m) ==
    [p \in PageNumbers(m) |->
        [now \in NowReads(m, page_size, p) |->
            paginate(m, page_size, p, now[1], now[2])]]

\* C11: order_by_timestamp called again with the list the index was built
\* from leaves the index as it was, entry for entry and in the same order,
\* and paginate(p) returns on it what it returned before, for every p.
C11_Idempotent ==
    [][ (pc = "ordered" /\ OrderByTimestamp) =>
            /\ timestamp_ordering' = timestamp_ordering
            /\ MapValues(timestamp_ordering') = Index
            /\ PagesOf(timestamp_ordering') = PagesOf(timestamp_ordering)
      ]_vars

\* An index of several entries was built from a list in which two entries
\* share a timestamp; the call can be repeated.
C11_Witness ==
    /\ pc = "ordered"
    /\ Len(Index) >= 2
    /\ SharesTimestamp(Logs)
    /\ page_size >= 1

\* The rearrangements of a list.
Rearrangements(logs) ==
    { [i \in 1 .. Len(logs) |-> logs[f[i]]] :
        f \in { g \in [1 .. Len(logs) -> 1 .. Len(logs)] :
                  \A i, j \in 1 .. Len(logs) : g[i] = g[j] => i = j } }

\* C12: the index is the one order_by_timestamp builds from the aggregated
\* entries in any other order of concatenation.
C12_OrderIndependent ==
    pc = "ordered" =>
        \A logs \in Rearrangements(Logs) :
            order_by_timestamp(EmptyMap, logs) = timestamp_ordering

\* The call returned by the last step was paginate(p) and it returned a page.
Paginated == call.op = "paginate" /\ page # None

\* The entries of the index at the 0-based positions lo .. hi - 1.
Between(lo, hi) == [i \in 1 .. (hi - lo) |-> Index[lo + i]]

\* C13: for p >= 1 and page_size >= 1, paginate(p) returns a page whose
\* items are the entries at 0-based positions (p - 1) * page_size up to, not
\* including, min(p * page_size, total); past the end that is a page
\* without items, not an error.
C13_Window ==
    (call.op = "paginate" /\ call.arg >= 1 /\ page_size >= 1) =>
        LET p     == call.arg
            total == Len(Index)
            lo    == (p - 1) * page_size
            hi    == IF p * page_size <= total THEN p * page_size ELSE total
        IN  /\ ~call.panicked
            /\ page # None
            /\ page[1].page_number = p
            /\ page[1].items = IF lo < hi THEN Between(lo, hi) ELSE <<>>
            /\ lo >= total => page[1].items = <<>>

\* The last page of an index of several pages was returned, and it is not
\* full.
C13_Witness ==
    /\ Paginated
    /\ call.arg >= 2
    /\ call.arg = TotalPages(page_size)
    /\ page[1].items # <<>>
    /\ Len(page[1].items) < page_size

\* The least n with n * size >= total.
CeilDiv(total, size) ==
    CHOOSE n \in 0 .. total :
        /\ n * size >= total
        /\ \A k \in 0 .. total : k * size >= total => n <= k

\* C14: every page returned says total_pages = ceil(total_entries /
\* page_size), 0 for an empty index, whatever page was asked for; 10
\* entries at page size 4 make 3 pages.
C14_TotalPages ==
    /\ page # None => page[1].total_pages = CeilDiv(Len(Index), page_size)
    /\ (page # None /\ Index = <<>>) => page[1].total_pages = 0
    /\ TotalPagesOf(10, 4) = 3

\* A page was returned from an index whose last page is not full, and the
\* page asked for was not the first.
C14_Witness ==
    /\ Paginated
    /\ Len(Index) % page_size # 0
    /\ Len(Index) > page_size
    /\ call.arg # 1

\* Where the window of page p ends: min(start + page_size, total).
EndIndex(p) ==
    LET start == (IF p >= 1 THEN p - 1 ELSE 0) * page_size
    IN  IF start + page_size <= Len(Index) THEN start + page_size
        ELSE Len(Index)

\* C15 as stated: on every page paginate(p) returns, can_go_back is p > 1
\* and can_continue is end_index < total_entries, which is also whether
\* paginate(p + 1) has items.
C15_Navigation ==
    Paginated =>
        LET p == call.arg IN
        /\ page[1].navigation.can_go_back = (p > 1)
        /\ page[1].navigation.can_continue = (EndIndex(p) < Len(Index))
        /\ page[1].navigation.can_continue =
              (paginate(timestamp_ordering, page_size, p + 1, 0, 0)[1].items
                  # <<>>)

\* C15, amended: on every page paginate(p) returns, can_go_back is p > 1 and
\* can_continue is end_index < total_entries; for p >= 1 that is whether
\* paginate(p + 1) has items, and on the last page can_continue is false.
C15_NavigationFromOne ==
    Paginated =>
        LET p == call.arg IN
        /\ page[1].navigation.can_go_back = (p > 1)
        /\ page[1].navigation.can_continue = (EndIndex(p) < Len(Index))
        /\ p >= 1 =>
              page[1].navigation.can_continue =
                (paginate(timestamp_ordering, page_size, p + 1, 0, 0)[1].items
                    # <<>>)
        /\ (p >= 1 /\ p = TotalPages(page_size))
              => ~page[1].navigation.can_continue

\* The last page of an index of several pages was returned, and it is full.
C15_Witness ==
    /\ Paginated
    /\ call.arg >= 2
    /\ call.arg = TotalPages(page_size)
    /\ Len(page[1].items) = page_size
    /\ ~page[1].navigation.can_continue
    /\ page[1].navigation.can_go_back

\* C16: the timestamp_range of a page with items is the least and the
\* greatest timestamp of its items, the least first.
C16_TimestampRange ==
    (page # None /\ page[1].items # <<>>) =>
        LET items == page[1].items
            range == page[1].timestamp_range
        IN  /\ \A i \in 1 .. Len(items) :
                  range[1] <= items[i].timestamp
                  /\ items[i].timestamp <= range[2]
            /\ \E i \in 1 .. Len(items) : items[i].timestamp = range[1]
            /\ \E i \in 1 .. Len(items) : items[i].timestamp = range[2]
            /\ range[1] <= range[2]

\* A page of several items of different timestamps was returned.
C16_Witness ==
    /\ page # None
    /\ Len(page[1].items) >= 2
    /\ page[1].items[1].timestamp # page[1].items[Len(page[1].items)].timestamp

\* C17: after order_by_timestamp(L1) and then order_by_timestamp(L2) every
\* entry of the index is an entry of L2, and the index is the one
\* order_by_timestamp builds from L2 on a new collector.
C17_Rebuild ==
    pc = "ordered" =>
        /\ \A j \in 1 .. Len(Index) :
              \E i \in 1 .. Len(Logs) : Logs[i] = Index[j]
        /\ timestamp_ordering = InsertAll(EmptyMap, Logs, 1)

\* The index was built from the aggregated list and then from a slice of
\* it that lacks an entry the index held.
C17_Witness ==
    /\ pc = "ordered"
    /\ Logs # <<>>
    /\ \E k \in DOMAIN InsertAll(EmptyMap, Aggregated, 1) :
          \A i \in 1 .. Len(Logs) :
              Logs[i] # InsertAll(EmptyMap, Aggregated, 1)[k]

\* C18: GitLogCollector::new fails exactly when the root path does not open
\* as a repository, and then there is no collector and nothing aggregated;
\* neither the state of a declared submodule nor a failing enumeration
\* makes it fail.
C18_DiscoveryFailure ==
    pc # "start" =>
        /\ (pc = "failed") = ~root.opens
        /\ pc = "failed" =>
              /\ submodules = <<>>
              /\ timestamp_ordering = EmptyMap
              /\ all_logs = NoLogs
        /\ root.opens => (pc = "new" /\ submodules # <<>>)

\* new returned a collector although the enumeration of the declared
\* submodules failed.
C18_Witness ==
    /\ pc = "new"
    /\ ~root.enumerates
    /\ root.declared # <<>>

\* C19: after new succeeded, every declared submodule has its SubmoduleInfo
\* in the discovered list, in the order of declaration, and one whose head
\* commit does not resolve has the commit hash "unknown".
C19_Total ==
    pc = "new" =>
        /\ Len(submodules) >= Len(root.declared)
        /\ \A i \in 1 .. Len(root.declared) :
              /\ submodules[i].path = root.declared[i].path
              /\ root.declared[i].head_id = None
                    => submodules[i].commit_hash = "unknown"

IsRootEntry(info) == info.name = "root" /\ info.path = "."

\* C20: after new succeeded the discovered list is not empty, its last
\* entry is the root entry (name "root", path "."), no other entry is one,
\* and the entries before it are those of the submodules.
C20_RootLast ==
    pc = "new" =>
        /\ submodules # <<>>
        /\ IsRootEntry(submodules[Len(submodules)])
        /\ Cardinality({ i \in 1 .. Len(submodules) :
                           IsRootEntry(submodules[i]) }) = 1
        /\ \A i \in 1 .. Len(submodules) - 1 :
              \E j \in 1 .. Len(root.declared) :
                  submodules[i].path = root.declared[j].path

\* new succeeded on a root that declares several submodules, and they
\* were enumerated.
C20_Witness ==
    /\ pc = "new"
    /\ Len(submodules) >= 3

\* A discovered repository is skipped when its path is missing or its
\* collection fails.
Skipped(world) ==
    Cardinality({ s \in 1 .. Len(submodules) :
                    ~Succeeds(world[submodules[s].path]) })

\* C21: what collect_all_submodule_logs hands the caller tells how many
\* discovered repositories were skipped: no two states of the repositories
\* with different numbers of skipped ones give the same result.
C21_SkippedCount ==
    pc = "collected" =>
        \A world \in Worlds :
            collect_all_submodule_logs(world, submodules,
                                       ragit_integration, {}) = all_logs
                => Skipped(world) = Skipped(repos)

\* C23: what collect_all_submodule_logs returns, and that it succeeds, is
\* what it returns without the term_quiz_master tool, whether the tool is
\* there or not and whichever of its runs fail.
C23_ToolIndependent ==
    pc = "collected" =>
        /\ all_logs.ok
        /\ all_logs.logs = CollectFrom(repos, submodules, 1, <<>>)
        /\ \A quiz \in QuizOutcomes :
              collect_all_submodule_logs(repos, submodules, TRUE, quiz)
                = collect_all_submodule_logs(repos, submodules, FALSE, {})

\* The tool is installed and was run on several entries.
C23_Witness ==
    /\ pc = "collected"
    /\ ragit_integration
    /\ Len(Logs) >= 2

\* The timestamps occurring in a list.
TimestampsOf(logs) == { logs[i].timestamp : i \in 1 .. Len(logs) }

\* The last position of logs that carries timestamp t.
LastWith(logs, t) ==
    CHOOSE i \in 1 .. Len(logs) :
        /\ logs[i].timestamp = t
        /\ \A j \in 1 .. Len(logs) : logs[j].timestamp = t => j <= i

\* C25: after order_by_timestamp(logs) the index has one entry per
\* timestamp occurring in logs, the last one of logs that carries it.
C25_LastWins ==
    pc = "ordered" =>
        /\ DOMAIN timestamp_ordering = TimestampsOf(Logs)
        /\ Len(Index) = Cardinality(TimestampsOf(Logs))
        /\ \A t \in TimestampsOf(Logs) :
              timestamp_ordering[t] = Logs[LastWith(Logs, t)]

\* The index was built from a list in which an entry of the submodule and
\* a later one of the root repository share a timestamp.
C25_Witness ==
    /\ pc = "ordered"
    /\ Len(Index) < Len(Logs)
    /\ \E i, j \in 1 .. Len(Logs) :
          /\ i < j
          /\ Logs[i].timestamp = Logs[j].timestamp
          /\ Logs[i].submodule_path # Logs[j].submodule_path

\* C26: on page p of 1 .. total_pages, next_timestamp is there exactly when
\* can_continue is, and is the timestamp of the first item of page p + 1;
\* previous_timestamp is absent on page 1 and is the timestamp of the last
\* item of page p - 1 from page 2 on.
C26_NeighbourTimestamps ==
    (Paginated /\ call.arg >= 1 /\ call.arg <= TotalPages(page_size)) =>
        LET p          == call.arg
            navigation == page[1].navigation
            after      == PageItems(timestamp_ordering, page_size, p + 1)
            before     == PageItems(timestamp_ordering, page_size, p - 1)
        IN  /\ (navigation.next_timestamp # None) = navigation.can_continue
            /\ navigation.can_continue =>
                  /\ after # <<>>
                  /\ navigation.next_timestamp = Some(after[1].timestamp)
            /\ p = 1 => navigation.previous_timestamp = None
            /\ p >= 2 =>
                  /\ before # <<>>
                  /\ navigation.previous_timestamp
                        = Some(before[Len(before)].timestamp)

\* A page between two others was returned.
C26_Witness ==
    /\ Paginated
    /\ call.arg >= 2
    /\ call.arg < TotalPages(page_size)
    /\ page[1].navigation.next_timestamp # None
    /\ page[1].navigation.previous_timestamp # None

\* The entries collected from the root repository are those of its commits,
\* one each and in the order of the walk, the author of an entry whose
\* commit has no readable author name being missing_author and the message
\* of one whose commit has no readable message being the empty string.
RootEntriesWith(missing_author) ==
    LET commits == repos[RootPath].commits
        mine    == EntriesOf("root")
    IN  /\ all_logs.ok
        /\ Len(mine) = Len(commits)
        /\ \A i \in 1 .. Len(commits) :
              /\ mine[i].commit_hash = i
              /\ mine[i].author = IF commits[i].author = None
                                  THEN missing_author
                                  ELSE commits[i].author[1]
              /\ mine[i].message = IF commits[i].message = None
                                   THEN ""
                                   ELSE commits[i].message[1]

\* C22 as stated: a commit without a readable author name or message is
\* recorded, with the empty string for the author and for the message, and
\* the walk goes on.
C22_EmptyDefaults ==
    pc = "collected" => RootEntriesWith("")

\* C22, amended: a commit without a readable author name or message is
\* recorded, with "unknown" for the author and the empty string for the
\* message, and the walk goes on.
C22_Defaults ==
    pc = "collected" => RootEntriesWith("unknown")

\* The newest commit of the root repository has neither a readable author
\* name nor a readable message, and an older commit was collected after it.
C22_Witness ==
    /\ pc = "collected"
    /\ Len(repos[RootPath].commits) >= 2
    /\ repos[RootPath].commits[1].author = None
    /\ repos[RootPath].commits[1].message = None
    /\ Len(EntriesOf("root")) >= 2

C27_PageSizeZero ==
    /\ pc = "failed" => ~root.opens
    /\ (pc # "start" /\ root.opens) => pc # "failed"
    /\ call.op \in {"paginate", "continue"} =>
          /\ (page # None) = (page_size >= 1)
          /\ call.panicked = (page_size = 0)

\* new returned a collector of page_size 0, and continue_from_timestamp
\* panicked on its index, which has entries.
C27_Witness ==
    /\ page_size = 0
    /\ pc = "ordered"
    /\ Index # <<>>
    /\ call.op = "continue"
    /\ call.panicked

\* C28: paginate(0) returns a page: its items, total_pages, timestamp_range,
\* can_continue and next_timestamp are those of paginate(1) (at the same
\* readings of the clock when there are no items), its page_number is 0,
\* can_go_back is false and previous_timestamp is absent.
C28_PageZero ==
    (call.op = "paginate" /\ call.arg = 0 /\ page_size >= 1) =>
        /\ page # None
        /\ LET zero == page[1]
               one  == paginate(timestamp_ordering, page_size, 1,
                                zero.timestamp_range[1],
                                zero.timestamp_range[2])[1]
           IN  /\ zero.items = one.items
               /\ zero.total_pages = one.total_pages
               /\ zero.timestamp_range = one.timestamp_range
               /\ zero.navigation.can_continue = one.navigation.can_continue
               /\ zero.navigation.next_timestamp
                     = one.navigation.next_timestamp
               /\ zero.page_number = 0
               /\ ~zero.navigation.can_go_back
               /\ zero.navigation.previous_timestamp = None

\* paginate(0) returned a page of an index of several pages.
C28_Witness ==
    /\ Paginated
    /\ call.arg = 0
    /\ page[1].items # <<>>
    /\ page[1].navigation.can_continue

\* The entries of the index under a label.
IndexedUnder(m, label) ==
    Cardinality({ k \in DOMAIN m : m[k].submodule_path = label })

RECURSIVE SumOver(_, _)
SumOver(counts, labels) ==
    IF labels = {} THEN 0
    ELSE LET l == CHOOSE x \in labels : TRUE
         IN  counts[l] + SumOver(counts, labels \ {l})

\* C29: get_submodule_stats returns, for each label of an entry of the
\* index, the number of entries of the index under it, and nothing else; the
\* counts add up to the size of the index, and the result is empty as long
\* as order_by_timestamp has not been called, whatever was collected.
C29_StatsOfIndex ==
    [][ GetSubmoduleStats =>
          LET counts == stats'[1] IN
          /\ DOMAIN counts = { timestamp_ordering[k].submodule_path :
                                  k \in DOMAIN timestamp_ordering }
          /\ \A label \in DOMAIN counts :
                counts[label] = IndexedUnder(timestamp_ordering, label)
          /\ SumOver(counts, DOMAIN counts) = Len(Index)
          /\ pc = "collected" => counts = EmptyMap
      ]_vars

\* The statistics were taken from an index that holds several entries of
\* the root repository.
C29_Witness ==
    /\ pc = "ordered"
    /\ stats # None
    /\ "root" \in DOMAIN stats[1]
    /\ stats[1]["root"] >= 2

\* What the quiz loop is to end with when it is not cut short by its input:
\* the condition of the loop or the break, and as many pages processed as
\* there are, up to the target.
QuizEndsWell ==
    /\ quiz_session.ended \in {"condition", "break"}
    /\ quiz_session.pages_processed =
          IF quiz_session.target_pages = 0 THEN 0
          ELSE Min(quiz_session.target_pages, TotalPages(page_size))

\* C30: in the quiz loop pages_processed never exceeds target_pages and
\* counts the iterations completed; when the input is available the loop
\* ends by its condition or by the break on the first page without items,
\* with pages_processed = min(target_pages, total_pages).
C30_QuizLoop ==
    pc \in {"quiz", "quiz over"} =>
        /\ quiz_session.pages_processed <= quiz_session.target_pages
        /\ quiz_session.ended # "read_line panicked" =>
              quiz_session.pages_processed = quiz_session.current_page - 1
        /\ (pc = "quiz over" /\ quiz_session.ended # "read_line panicked")
              => QuizEndsWell

\* The same for page_size >= 1.
C30_QuizLoopFromOne == page_size >= 1 => C30_QuizLoop

\* Once started, the quiz comes to an end.
C30_Terminates == (pc = "quiz") ~> (pc = "quiz over")

SpecQuizFair == SpecQuiz /\ WF_vars(QuizIteration) /\ WF_vars(QuizExit)
=============================================================================
